---- MODULE Spec2Model ----
(***************************************************************************)
(* Resume-Builder front end: the edit state kept by the React components   *)
(* (accepted flags, tailored content, manual edits), the requests they     *)
(* issue to the backend (parse-resume, tailor-resume, export-docx) and the *)
(* handlers that run when those requests settle.                           *)
(*                                                                         *)
(* Two component trees exist in the sources.  `page` says which component  *)
(* is mounted:                                                             *)
(*   "App"                the App of App.tsx: ResumeUpload,                *)
(*                        JobDescriptionInput, DiffViewer, export button   *)
(*   "CombinedUpload"     the upload page of the combined flow             *)
(*   "TailoredResumeView" the result page of the combined flow             *)
(* The state variables are those of the mounted components; App and        *)
(* TailoredResumeView both keep `acceptedChanges` and `loading`, App and   *)
(* CombinedUpload both keep `loading` and `error`.                         *)
(*                                                                         *)
(* JavaScript values: a string is a TLA+ string, an array a sequence       *)
(* (1-based here, 0-based in the source), an object a record; an optional  *)
(* field that is absent is a key outside the record's DOMAIN.              *)
(***************************************************************************)
EXTENDS Integers, Sequences, FiniteSets, TLC

\* ------------------------------------------------------------------ bounds
\* Distinct non-empty resumes the parse endpoint can return (ids 1..NResumes).
NResumes == 2
\* Longest tailored bullet list the tailor endpoint returns.
MaxBullets == 2
\* Most requests (tailor + export) in flight at the same time.
MaxInFlight == 2
\* Most messages a user sends in the chat panel.
MaxChat == 3

\* ------------------------------------------------------------------ values
null == [null |-> TRUE]
\* null of a string-typed state (error: string | null)
NoError == "<null>"
\* null of the File-typed state of CombinedUpload
NoFile == "<no file>"
SomeFile == "resume.pdf"

Tailorable == {"summary", "experience", "skills"}
NonTailorable == {"contact", "education", "certifications", "projects"}
SectionKinds == Tailorable \cup NonTailorable

\* Job descriptions a user can type: empty, whitespace only, real text.
JobTexts == {"", "  ", "Looking for a leader"}
Trim(s) == IF s = "  " THEN "" ELSE s

\* Text a user can type into the chat input: empty, whitespace only, real text.
ChatTexts == {"", "  ", "make it shorter"}

\* Text a user can type into the edit textarea.
EditTexts == {"edited by user"}

\* The object literal {} the export handlers substitute for a missing section.
EmptyObject == [k \in {} |-> ""]

\* --------------------------------------------------- what the backend returns
ResumeIds == 0 .. NResumes
RawText(r) == IF r = 0 THEN "" ELSE "raw text " \o ToString(r)
ResumeOfText(t) == CHOOSE r \in ResumeIds : RawText(r) = t

\* A text is its words joined by single spaces.
RECURSIVE Join(_)
Join(ws) == IF Len(ws) = 1 THEN ws[1] ELSE ws[1] \o " " \o Join(Tail(ws))

\* The words of bullet i of resume r: as parsed, as reworded with a term of
\* the job description, and as reworded with a term found in neither text.
OrigBulletWords(r, i) == <<"bullet", ToString(r) \o "." \o ToString(i)>>
TailBulletWords(r, i) == <<"Leader">> \o OrigBulletWords(r, i)
FabBulletWords(r, i) == <<"Kubernetes">> \o OrigBulletWords(r, i)
OrigSkillsWords(r) == <<"skills", ToString(r)>>
TailSkillsWords(r) == <<"Leader">> \o OrigSkillsWords(r)
FabSkillsWords(r) == <<"Kubernetes">> \o OrigSkillsWords(r)

\* Resume 0 is the degenerate parse (raw_text is the empty string); resume
\* r > 0 has r experience bullets.
OrigLen(r) == r
OrigSummary(r) == IF r = 0 THEN "" ELSE "summary " \o ToString(r)
OrigSkills(r) == IF r = 0 THEN "" ELSE Join(OrigSkillsWords(r))
OrigBullet(r, i) == Join(OrigBulletWords(r, i))
TailSummary(r) == "tailored summary " \o ToString(r)
TailSkills(r) == Join(TailSkillsWords(r))
TailBullet(r, i) == Join(TailBulletWords(r, i))
FabSkills(r) == Join(FabSkillsWords(r))
FabBullet(r, i) == Join(FabBulletWords(r, i))

\* ParsedResume as the parse endpoint returns it; every field but raw_text is
\* optional here.  Resume 1 is a text in which no section was recognised, the
\* resumes after it have every section.
MkResume(r) ==
    LET keys == {"raw_text"} \cup (IF r > 1 THEN NonTailorable \cup Tailorable ELSE {})
    IN  [k \in keys |->
            CASE k = "raw_text" -> RawText(r)
              [] k = "contact" -> [name |-> "name " \o ToString(r)]
              [] k = "summary" -> [content |-> OrigSummary(r)]
              [] k = "skills" -> [content |-> OrigSkills(r)]
              [] OTHER -> [content |-> k \o " " \o ToString(r)]]

ParsedResumes == {MkResume(r) : r \in ResumeIds}

OriginalOf(r) ==
    [summary |-> OrigSummary(r),
     experience |-> [i \in 1 .. OrigLen(r) |-> OrigBullet(r, i)],
     skills |-> OrigSkills(r)]

\* TailoredData for resume r: m tailored bullets, or (stub) the original
\* content unchanged with no rationale.
MkResult(r, m, stub) ==
    [original |-> OriginalOf(r),
     tailored |-> IF stub THEN OriginalOf(r)
                  ELSE [summary |-> TailSummary(r),
                        experience |-> [i \in 1 .. m |-> TailBullet(r, i)],
                        skills |-> TailSkills(r)],
     changes |-> IF stub THEN [s \in Tailorable |-> <<>>]
                 ELSE [s \in Tailorable |-> <<"why " \o s>>]]

IsStub(d) == d.tailored = d.original /\ \A s \in Tailorable : d.changes[s] = <<>>

\* ------------------------------------------------ the tailoring orchestrator
\* The tailor endpoint: the requirement extractor, the rewriting collaborator
\* and the guard applied to what the collaborator returns.
Lower(w) ==
    CASE w = "Leader" -> "leader"
      [] w = "Kubernetes" -> "kubernetes"
      [] OTHER -> w

MaxIndex == IF NResumes > MaxBullets THEN NResumes ELSE MaxBullets

Phrases ==
    UNION {{OrigBulletWords(r, i), TailBulletWords(r, i), FabBulletWords(r, i)} :
               <<r, i>> \in ResumeIds \X (1 .. MaxIndex)}
    \cup UNION {{OrigSkillsWords(r), TailSkillsWords(r), FabSkillsWords(r)} :
                    r \in ResumeIds}

\* Each text with its content words in lower case.
Lexicon ==
    {[text |-> Join(ws), words |-> {Lower(ws[j]) : j \in 1 .. Len(ws)}] : ws \in Phrases}

\* The content words of a text.
ContentWords(text) == UNION {e.words : e \in {x \in Lexicon : x.text = text}}

\* The requirements vocabulary extracted from a job description.
RequirementTerms(jd) == IF Trim(jd) = "" THEN {} ELSE {"leader"}

\* Variant: the collaborator's text passed on unchecked.
AntiFabricationGuardOff(original, tailored, vocabulary) == tailored

\* A tailored bullet with a content word found neither in the original bullet
\* nor in the requirements vocabulary is replaced by the original bullet.
AntiFabricationGuard(original, tailored, vocabulary) ==
    IF ContentWords(tailored) \subseteq ContentWords(original) \cup vocabulary
    THEN tailored
    ELSE original

\* What the rewriting collaborator may return for resume r: m bullets, and
\* (fab) a term of its own in the first bullet and in the skills.
Rewrite(r, m, fab) ==
    [summary |-> TailSummary(r),
     experience |-> [i \in 1 .. m |-> IF fab /\ i = 1 THEN FabBullet(r, i)
                                       ELSE TailBullet(r, i)],
     skills |-> IF fab THEN FabSkills(r) ELSE TailSkills(r)]

Rewrites(r) ==
    {Rewrite(r, m, fab) :
        <<m, fab>> \in (0 .. (IF OrigLen(r) < MaxBullets THEN OrigLen(r) ELSE MaxBullets))
                       \X BOOLEAN}

\* The orchestrator's result for resume r and job description jd, given the
\* collaborator's rewrite.
Tailor(r, jd, rewrite) ==
    LET original == OriginalOf(r)
        vocabulary == RequirementTerms(jd)
    IN  [MkResult(r, Len(rewrite.experience), FALSE) EXCEPT
            !.tailored =
                [summary |-> rewrite.summary,
                 experience |->
                    [i \in 1 .. Len(rewrite.experience) |->
                        AntiFabricationGuard(original.experience[i],
                                             rewrite.experience[i], vocabulary)],
                 skills |-> AntiFabricationGuard(original.skills, rewrite.skills,
                                                 vocabulary)]]

\* The bodies the tailor endpoint can answer a call with.
ServerResults(r, jd) ==
    {Tailor(r, jd, rewrite) : rewrite \in Rewrites(r)} \cup {MkResult(r, 0, TRUE)}

\* The same, tabulated by the call's resume text and job description.
AnswersTo ==
    [call \in [resume_text : {RawText(r) : r \in ResumeIds}, job_description : JobTexts] |->
        ServerResults(ResumeOfText(call.resume_text), call.job_description)]

\* Error bodies the backend can answer with: a `detail` string, or none.
ServerDetails == {"", "server detail"}

\* ------------------------------------------------------------------- state
VARIABLES
    page,               \* which component is mounted
    resume,             \* App: resume state; TailoredResumeView: the resume prop
    tailoredData,       \* App: tailoredData state; TailoredResumeView: the prop
    heap,               \* the `tailored` objects that tailoredData values refer to
    supplied,           \* history: the tailor response the edit state was made from
    pristine,           \* history: no toggle and no saved edit since the
                        \* acceptedChanges state was created
    acceptedChanges,    \* App / TailoredResumeView: acceptedChanges state
    loading,            \* loading state of the mounted component
    error,              \* App / CombinedUpload: error state
    tailorCalls,        \* api.tailorResume calls in flight, in order of issue
    exportCalls,        \* number of api.exportDocx calls in flight
    sent,               \* the body handed to api.exportDocx by the last step, or null
    localTailoredData,  \* TailoredResumeView: localTailoredData state
    editMode,           \* TailoredResumeView: editMode state
    editedContent,      \* TailoredResumeView: editedContent state
    exportError,        \* TailoredResumeView: exportError state
    file,               \* CombinedUpload: file state
    jobDescription,     \* CombinedUpload: jobDescription state
    submitPc,           \* CombinedUpload.handleSubmit: "idle", "parsing", "tailoring"
    resumeResult,       \* CombinedUpload.handleSubmit: its local resumeResult
    chatMessages,       \* TailoredResumeView: chatMessages as of the last render
    chatInput,          \* TailoredResumeView: chatInput state
    showChat,           \* TailoredResumeView: showChat state
    chatTimers,         \* reply timers set by handleChatSubmit that have not fired
    chatQueued          \* replies whose timer has fired and whose update is not rendered yet

vars == <<page, resume, tailoredData, heap, supplied, pristine, acceptedChanges, loading,
          error, tailorCalls, exportCalls, sent, localTailoredData, editMode,
          editedContent, exportError, file, jobDescription, submitPc,
          resumeResult, chatMessages, chatInput, showChat, chatTimers, chatQueued>>

appVars == <<resume, tailoredData, heap, supplied, acceptedChanges, loading,
             error>>
viewVars == <<localTailoredData, editMode, editedContent, exportError>>
uploadVars == <<file, jobDescription, submitPc, resumeResult>>
chatVars == <<chatMessages, chatInput, showChat, chatTimers, chatQueued>>

\* A TailoredData value holds a reference to its nested `tailored` object: the
\* object lives in the heap, and two TailoredData values with the same
\* reference share it.
RefTo(result) ==
    [original |-> result.original, tailored |-> 1, changes |-> result.changes]
HeapOf(result) == <<result.tailored>>
Deref(d) ==
    [original |-> d.original, tailored |-> heap[d.tailored], changes |-> d.changes]

\* History: the body of a tailor response, the call it answers, and whether
\* the body has the shape TailoredData declares.
Received(result, call, declared) ==
    [original |-> result.original, tailored |-> result.tailored,
     changes |-> result.changes, request |-> call, declared |-> declared]

\* The message the chat panel starts with, and the simulated reply.
Greeting ==
    [role |-> "agent",
     content |-> "Hi! I can help you refine your tailored resume. What would you like to update?"]
AgentReply ==
    [role |-> "agent",
     content |-> "I understand you'd like to make that change. You can click the edit button next to any section to modify it directly. Would you like me to suggest specific improvements?"]
UserMessage(text) == [role |-> "user", content |-> text]

AllAccepted == [summary |-> TRUE, experience |-> TRUE, skills |-> TRUE]

InFlight == Len(tailorCalls) + exportCalls

\* x.k when the optional field k is present, else undefined; `x?.k || {}`.
OrEmpty(x, k) == IF x # null /\ k \in DOMAIN x THEN x[k] ELSE EmptyObject
\* !resume || !resume.raw_text
NoRawText(x) == x = null \/ "raw_text" \notin DOMAIN x \/ x["raw_text"] = ""

RemoveAt(seq, i) == [j \in 1 .. Len(seq) - 1 |-> IF j < i THEN seq[j] ELSE seq[j + 1]]

\* err.response?.data?.detail || fallback
ErrorText(detail, fallback) == IF detail # "" THEN detail ELSE fallback

\* -------------------------------------------------------------------- Init
\* Variant: the summary switch starts off.
InitAppSummaryOff ==
    /\ page = "App"
    /\ resume = null
    /\ tailoredData = null
    /\ acceptedChanges = [AllAccepted EXCEPT !.summary = FALSE]
    /\ loading = FALSE
    /\ error = NoError

InitApp ==
    /\ page = "App"
    /\ resume = null
    /\ tailoredData = null
    /\ acceptedChanges = AllAccepted
    /\ loading = FALSE
    /\ error = NoError

InitCombinedUpload ==
    /\ page = "CombinedUpload"
    /\ resume = null
    /\ tailoredData = null
    /\ acceptedChanges = AllAccepted
    /\ loading = FALSE
    /\ error = NoError

Init ==
    /\ InitApp \/ InitCombinedUpload
    /\ heap = <<>>
    /\ supplied = null
    /\ pristine = TRUE
    /\ tailorCalls = <<>>
    /\ exportCalls = 0
    /\ sent = null
    /\ localTailoredData = null
    /\ editMode = null
    /\ editedContent = ""
    /\ exportError = NoError
    /\ file = NoFile
    /\ jobDescription = ""
    /\ submitPc = "idle"
    /\ resumeResult = null
    /\ chatMessages = <<Greeting>>
    /\ chatInput = ""
    /\ showChat = FALSE
    /\ chatTimers = 0
    /\ chatQueued = 0

\* --------------------------------------------------------------------- App
\* ResumeUpload hands a parsed resume to App.
handleResumeLoaded(parsedResume) ==
    /\ page = "App"
    /\ resume' = parsedResume
    /\ tailoredData' = null
    /\ heap' = <<>>
    /\ supplied' = null
    /\ error' = NoError
    /\ UNCHANGED chatVars
    /\ sent' = null
    /\ UNCHANGED pristine
    /\ UNCHANGED <<page, acceptedChanges, loading, tailorCalls, exportCalls>>
    /\ UNCHANGED <<viewVars, uploadVars>>

\* JobDescriptionInput is rendered once a resume is loaded; its button is
\* enabled for a non-blank job description.
JobDescriptionInputShown == page = "App" /\ resume # null

\* handleJobDescriptionSubmit, early return: no resume text.
handleJobDescriptionSubmitNoResume(jd) ==
    /\ JobDescriptionInputShown
    /\ Trim(jd) # ""
    /\ NoRawText(resume)
    /\ error' = "Please upload a resume first"
    /\ UNCHANGED chatVars
    /\ sent' = null
    /\ UNCHANGED pristine
    /\ UNCHANGED <<page, resume, tailoredData, heap, supplied, acceptedChanges,
                   loading, tailorCalls, exportCalls>>
    /\ UNCHANGED <<viewVars, uploadVars>>

\* handleJobDescriptionSubmit up to its await: the request is issued.
handleJobDescriptionSubmit(jd) ==
    /\ JobDescriptionInputShown
    /\ Trim(jd) # ""
    /\ ~NoRawText(resume)
    /\ InFlight < MaxInFlight
    /\ loading' = TRUE
    /\ error' = NoError
    /\ tailorCalls' = Append(tailorCalls,
                             [resume_text |-> resume["raw_text"], job_description |-> jd])
    /\ UNCHANGED chatVars
    /\ sent' = null
    /\ UNCHANGED pristine
    /\ UNCHANGED <<page, resume, tailoredData, heap, supplied, acceptedChanges,
                   exportCalls>>
    /\ UNCHANGED <<viewVars, uploadVars>>

\* handleJobDescriptionSubmit after its await, the call resolved: the body of
\* the response becomes tailoredData as it is.
AppTakesResult(i, result, declared) ==
    /\ page = "App"
    /\ tailorCalls' = RemoveAt(tailorCalls, i)
    /\ tailoredData' = RefTo(result)
    /\ heap' = HeapOf(result)
    /\ supplied' = Received(result, tailorCalls[i], declared)
    /\ loading' = FALSE
    /\ UNCHANGED chatVars
    /\ sent' = null
    /\ UNCHANGED pristine
    /\ UNCHANGED <<page, resume, acceptedChanges, error, exportCalls>>
    /\ UNCHANGED <<viewVars, uploadVars>>

AppTailorResolvedWith(i, result) == AppTakesResult(i, result, TRUE)

\* handleJobDescriptionSubmit after its await, the call rejected.
AppTailorRejectedWith(i, detail) ==
    /\ page = "App"
    /\ tailorCalls' = RemoveAt(tailorCalls, i)
    /\ error' = ErrorText(detail, "Failed to tailor resume")
    /\ loading' = FALSE
    /\ UNCHANGED chatVars
    /\ sent' = null
    /\ UNCHANGED pristine
    /\ UNCHANGED <<page, resume, tailoredData, heap, supplied, acceptedChanges,
                   exportCalls>>
    /\ UNCHANGED <<viewVars, uploadVars>>

\* Any call in flight may settle next, with any answer the backend can give.
AppTailorResolved ==
    \E i \in 1 .. Len(tailorCalls) :
        \E result \in AnswersTo[tailorCalls[i]] :
            AppTailorResolvedWith(i, result)

AppTailorRejected ==
    \E i \in 1 .. Len(tailorCalls) : \E detail \in ServerDetails :
        AppTailorRejectedWith(i, detail)

\* DiffViewer and the export button are rendered when tailoredData && !loading.
DiffViewerShown == page = "App" /\ tailoredData # null /\ ~loading

\* Variant: acceptance kept as one global decision.
ToggleChangeAll(prev, section) == [s \in DOMAIN prev |-> ~prev[section]]

\* { ...prev, [section]: !prev[section] }: a key prev does not have reads as
\* undefined, and !undefined is true.
ToggleChange(prev, section) ==
    [k \in DOMAIN prev \cup {section} |->
        IF k = section THEN ~(section \in DOMAIN prev /\ prev[section]) ELSE prev[k]]

handleToggleChange(section) ==
    /\ DiffViewerShown
    /\ acceptedChanges' = ToggleChange(acceptedChanges, section)
    /\ UNCHANGED chatVars
    /\ sent' = null
    /\ pristine' = FALSE
    /\ UNCHANGED <<page, resume, tailoredData, heap, supplied, loading, error,
                   tailorCalls, exportCalls>>
    /\ UNCHANGED <<viewVars, uploadVars>>

\* The body of the export-docx request App.handleExport builds.
AppExportRequest(res, data, accepted) ==
    [original_sections |->
        [contact |-> OrEmpty(res, "contact"),
         summary |-> data.original.summary,
         experience |-> data.original.experience,
         skills |-> data.original.skills,
         education |-> OrEmpty(res, "education"),
         certifications |-> OrEmpty(res, "certifications")],
     tailored_sections |->
        [summary |-> data.tailored.summary,
         experience |-> data.tailored.experience,
         skills |-> data.tailored.skills],
     accepted_changes |-> accepted]

\* App.handleExport up to its await.
handleExport ==
    /\ DiffViewerShown
    /\ InFlight < MaxInFlight
    /\ loading' = TRUE
    /\ error' = NoError
    /\ UNCHANGED chatVars
    /\ sent' = AppExportRequest(resume, Deref(tailoredData), acceptedChanges)
    /\ UNCHANGED pristine
    /\ exportCalls' = exportCalls + 1
    /\ UNCHANGED <<page, resume, tailoredData, heap, supplied, acceptedChanges,
                   tailorCalls>>
    /\ UNCHANGED <<viewVars, uploadVars>>

\* App.handleExport after its await: the blob is downloaded.
AppExportResolved ==
    /\ page = "App"
    /\ exportCalls > 0
    /\ exportCalls' = exportCalls - 1
    /\ loading' = FALSE
    /\ UNCHANGED chatVars
    /\ sent' = null
    /\ UNCHANGED pristine
    /\ UNCHANGED <<page, resume, tailoredData, heap, supplied, acceptedChanges,
                   error, tailorCalls>>
    /\ UNCHANGED <<viewVars, uploadVars>>

AppExportRejected(detail) ==
    /\ page = "App"
    /\ exportCalls > 0
    /\ exportCalls' = exportCalls - 1
    /\ error' = ErrorText(detail, "Failed to export resume")
    /\ loading' = FALSE
    /\ UNCHANGED chatVars
    /\ sent' = null
    /\ UNCHANGED pristine
    /\ UNCHANGED <<page, resume, tailoredData, heap, supplied, acceptedChanges,
                   tailorCalls>>
    /\ UNCHANGED <<viewVars, uploadVars>>

NextApp ==
    \/ \E parsedResume \in ParsedResumes : handleResumeLoaded(parsedResume)
    \/ \E jd \in JobTexts : handleJobDescriptionSubmitNoResume(jd)
    \/ \E jd \in JobTexts : handleJobDescriptionSubmit(jd)
    \/ AppTailorResolved
    \/ AppTailorRejected
    \/ \E section \in Tailorable : handleToggleChange(section)
    \/ handleExport
    \/ AppExportResolved
    \/ \E detail \in ServerDetails : AppExportRejected(detail)

\* ---------------------------------------------------------- CombinedUpload
\* The file input and the textarea are disabled while loading.
handleFileChange(selectedFile) ==
    /\ page = "CombinedUpload"
    /\ ~loading
    /\ file' = selectedFile
    /\ error' = NoError
    /\ UNCHANGED chatVars
    /\ sent' = null
    /\ UNCHANGED pristine
    /\ UNCHANGED <<page, resume, tailoredData, heap, supplied, acceptedChanges,
                   loading, tailorCalls, exportCalls>>
    /\ UNCHANGED <<viewVars, jobDescription, submitPc, resumeResult>>

setJobDescription(text) ==
    /\ page = "CombinedUpload"
    /\ ~loading
    /\ jobDescription' = text
    /\ UNCHANGED chatVars
    /\ sent' = null
    /\ UNCHANGED pristine
    /\ UNCHANGED <<page, appVars, tailorCalls, exportCalls>>
    /\ UNCHANGED <<viewVars, file, submitPc, resumeResult>>

\* The submit button is disabled while loading, without a file, or with a
\* blank job description.
SubmitEnabled ==
    page = "CombinedUpload" /\ ~loading /\ file # NoFile /\ Trim(jobDescription) # ""

\* Variant: both requests issued at once, the tailor request with no resume text.
handleSubmitBothAtOnce ==
    /\ SubmitEnabled
    /\ loading' = TRUE
    /\ error' = NoError
    /\ submitPc' = "parsing"
    /\ tailorCalls' = Append(tailorCalls,
                             [resume_text |-> "", job_description |-> jobDescription])
    /\ UNCHANGED chatVars
    /\ sent' = null
    /\ UNCHANGED pristine
    /\ UNCHANGED <<page, resume, tailoredData, heap, supplied, acceptedChanges,
                   exportCalls>>
    /\ UNCHANGED <<viewVars, file, jobDescription, resumeResult>>

\* CombinedUpload.handleSubmit up to its first await: api.parseResume(file).
handleSubmit ==
    /\ SubmitEnabled
    /\ loading' = TRUE
    /\ error' = NoError
    /\ submitPc' = "parsing"
    /\ UNCHANGED chatVars
    /\ sent' = null
    /\ UNCHANGED pristine
    /\ UNCHANGED <<page, resume, tailoredData, heap, supplied, acceptedChanges,
                   tailorCalls, exportCalls>>
    /\ UNCHANGED <<viewVars, file, jobDescription, resumeResult>>

\* parseResume resolved: handleSubmit goes on to api.tailorResume.
SubmitParseResolved(parsedResume) ==
    /\ page = "CombinedUpload"
    /\ submitPc = "parsing"
    /\ resumeResult' = parsedResume
    /\ tailorCalls' = Append(tailorCalls,
            [resume_text |-> IF NoRawText(parsedResume) THEN "" ELSE parsedResume["raw_text"],
             job_description |-> jobDescription])
    /\ submitPc' = "tailoring"
    /\ UNCHANGED chatVars
    /\ sent' = null
    /\ UNCHANGED pristine
    /\ UNCHANGED <<page, appVars, exportCalls>>
    /\ UNCHANGED <<viewVars, file, jobDescription>>

\* Either await rejected: catch and finally of handleSubmit.
SubmitRejected(detail) ==
    /\ page = "CombinedUpload"
    /\ submitPc \in {"parsing", "tailoring"}
    /\ error' = ErrorText(detail, "Failed to process resume. Please try again.")
    /\ loading' = FALSE
    /\ submitPc' = "idle"
    /\ tailorCalls' = <<>>
    /\ resumeResult' = null
    /\ UNCHANGED chatVars
    /\ sent' = null
    /\ UNCHANGED pristine
    /\ UNCHANGED <<page, resume, tailoredData, heap, supplied, acceptedChanges,
                   exportCalls>>
    /\ UNCHANGED <<viewVars, file, jobDescription>>

\* ------------------------------------------------------ TailoredResumeView
\* The state of a freshly mounted TailoredResumeView with these props.
MountView(res, result) ==
    /\ page' = "TailoredResumeView"
    /\ resume' = res
    /\ tailoredData' = RefTo(result)
    /\ heap' = HeapOf(result)
    /\ supplied' = Received(result, Head(tailorCalls), TRUE)
    /\ localTailoredData' = RefTo(result)
    /\ acceptedChanges' = AllAccepted
    /\ pristine' = TRUE
    /\ loading' = FALSE
    /\ exportError' = NoError
    /\ editMode' = null
    /\ editedContent' = ""
    /\ chatMessages' = <<Greeting>>
    /\ chatInput' = ""
    /\ showChat' = FALSE
    /\ chatTimers' = 0
    /\ chatQueued' = 0

\* tailorResume resolved: handleSubmit calls onTailoringComplete, which shows
\* the result page.
SubmitTailorResolvedWith(result) ==
    /\ page = "CombinedUpload"
    /\ submitPc = "tailoring"
    /\ MountView(resumeResult, result)
    /\ tailorCalls' = <<>>
    /\ submitPc' = "idle"
    /\ resumeResult' = null
    /\ error' = NoError
    /\ file' = NoFile
    /\ jobDescription' = ""
    /\ sent' = null
    /\ UNCHANGED exportCalls

SubmitTailorResolved ==
    \E i \in 1 .. Len(tailorCalls) :
        \E result \in AnswersTo[tailorCalls[i]] :
            SubmitTailorResolvedWith(result)

ViewShown == page = "TailoredResumeView"

\* The content handleEdit loads into the textarea.
EditTarget(data, section, index) ==
    IF section = "experience" THEN data.tailored.experience[index]
    ELSE data.tailored[section]

\* The edit buttons rendered: one per string section and per bullet, except
\* where the textarea is open.
EditButtons ==
    {[section |-> s, index |-> 0] : s \in {"summary", "skills"}}
    \cup {[section |-> "experience", index |-> i] :
            i \in 1 .. Len(Deref(localTailoredData).tailored.experience)}

handleEdit(section, index) ==
    /\ ViewShown
    /\ [section |-> section, index |-> index] \in EditButtons
    /\ IF editMode = null THEN TRUE
       ELSE IF section = "experience"
            THEN editMode # [section |-> section, index |-> index]
            ELSE editMode.section # section
    /\ editMode' = [section |-> section, index |-> index]
    /\ editedContent' = EditTarget(Deref(localTailoredData), section, index)
    /\ UNCHANGED chatVars
    /\ sent' = null
    /\ UNCHANGED pristine
    /\ UNCHANGED <<page, appVars, tailorCalls, exportCalls>>
    /\ UNCHANGED <<localTailoredData, exportError, uploadVars>>

setEditedContent(text) ==
    /\ ViewShown
    /\ editMode # null
    /\ editedContent' = text
    /\ UNCHANGED chatVars
    /\ sent' = null
    /\ UNCHANGED pristine
    /\ UNCHANGED <<page, appVars, tailorCalls, exportCalls>>
    /\ UNCHANGED <<localTailoredData, editMode, exportError, uploadVars>>

\* { ...localTailoredData }: a new top-level object with the same nested ones.
SpreadCopy(d) == d

\* Variant: a bullet edit written over the whole bullet list.
SaveIntoEveryBullet(obj, mode, content) ==
    IF mode.section = "summary" THEN [obj EXCEPT !.summary = content]
    ELSE IF mode.section = "experience" /\ mode.index # 0
         THEN [obj EXCEPT !.experience = [j \in DOMAIN obj.experience |-> content]]
    ELSE IF mode.section = "skills" THEN [obj EXCEPT !.skills = content]
    ELSE obj

\* Variant: a bullet edit added to the list as a new bullet.
SaveIntoAppends(obj, mode, content) ==
    IF mode.section = "summary" THEN [obj EXCEPT !.summary = content]
    ELSE IF mode.section = "experience" /\ mode.index # 0
         THEN [obj EXCEPT !.experience = Append(obj.experience, content)]
    ELSE IF mode.section = "skills" THEN [obj EXCEPT !.skills = content]
    ELSE obj

\* The assignment handleSaveEdit makes into newData.tailored.
SaveInto(obj, mode, content) ==
    IF mode.section = "summary" THEN [obj EXCEPT !.summary = content]
    ELSE IF mode.section = "experience" /\ mode.index # 0
         THEN [obj EXCEPT !.experience[mode.index] = content]
    ELSE IF mode.section = "skills" THEN [obj EXCEPT !.skills = content]
    ELSE obj

\* Variant: saving an edit also switches the edited section to accepted.
handleSaveEditAccepts ==
    /\ page = "TailoredResumeView"
    /\ editMode # null
    /\ heap' = [heap EXCEPT ![localTailoredData.tailored] =
                    SaveInto(heap[localTailoredData.tailored], editMode, editedContent)]
    /\ localTailoredData' = localTailoredData
    /\ acceptedChanges' = [acceptedChanges EXCEPT ![editMode.section] = TRUE]
    /\ editMode' = null
    /\ editedContent' = ""
    /\ UNCHANGED chatVars
    /\ sent' = null
    /\ pristine' = FALSE
    /\ UNCHANGED <<page, resume, tailoredData, supplied, loading,
                   error, tailorCalls, exportCalls>>
    /\ UNCHANGED <<exportError, uploadVars>>

handleSaveEdit ==
    /\ ViewShown
    /\ editMode # null
    /\ LET newData == SpreadCopy(localTailoredData) IN
        /\ heap' = [heap EXCEPT ![newData.tailored] =
                        SaveInto(heap[newData.tailored], editMode, editedContent)]
        /\ localTailoredData' = newData
    /\ editMode' = null
    /\ editedContent' = ""
    /\ UNCHANGED chatVars
    /\ sent' = null
    /\ pristine' = FALSE
    /\ UNCHANGED <<page, resume, tailoredData, supplied, acceptedChanges, loading,
                   error, tailorCalls, exportCalls>>
    /\ UNCHANGED <<exportError, uploadVars>>

handleCancelEdit ==
    /\ ViewShown
    /\ editMode # null
    /\ editMode' = null
    /\ editedContent' = ""
    /\ UNCHANGED chatVars
    /\ sent' = null
    /\ UNCHANGED pristine
    /\ UNCHANGED <<page, appVars, tailorCalls, exportCalls>>
    /\ UNCHANGED <<localTailoredData, exportError, uploadVars>>

\* Variant: the checkbox only ever switches a section on.
ToggleAcceptedOn(prev, sectionKey) == [prev EXCEPT ![sectionKey] = TRUE]

\* The accept checkbox of renderSection.
ToggleAccepted(prev, sectionKey) == [prev EXCEPT ![sectionKey] = ~prev[sectionKey]]

setAcceptedChanges(sectionKey) ==
    /\ ViewShown
    /\ acceptedChanges' = ToggleAccepted(acceptedChanges, sectionKey)
    /\ UNCHANGED chatVars
    /\ sent' = null
    /\ pristine' = FALSE
    /\ UNCHANGED <<page, resume, tailoredData, heap, supplied, loading, error,
                   tailorCalls, exportCalls>>
    /\ UNCHANGED <<viewVars, uploadVars>>

\* Variant: the request built with the initial flags instead of the current ones.
ViewExportRequestInitialFlags(res, data, accepted) ==
    [original_sections |->
        [contact |-> OrEmpty(res, "contact"),
         summary |-> data.original.summary,
         experience |-> data.original.experience,
         skills |-> data.original.skills,
         education |-> OrEmpty(res, "education"),
         certifications |-> OrEmpty(res, "certifications")],
     tailored_sections |->
        [summary |-> data.tailored.summary,
         experience |-> data.tailored.experience,
         skills |-> data.tailored.skills],
     accepted_changes |-> AllAccepted]

\* The body of the export-docx request TailoredResumeView.handleExport builds.
ViewExportRequest(res, data, accepted) ==
    [original_sections |->
        [contact |-> OrEmpty(res, "contact"),
         summary |-> data.original.summary,
         experience |-> data.original.experience,
         skills |-> data.original.skills,
         education |-> OrEmpty(res, "education"),
         certifications |-> OrEmpty(res, "certifications")],
     tailored_sections |->
        [summary |-> data.tailored.summary,
         experience |-> data.tailored.experience,
         skills |-> data.tailored.skills],
     accepted_changes |-> accepted]

\* TailoredResumeView.handleExport up to its await; the button is disabled
\* while loading.
viewHandleExport ==
    /\ ViewShown
    /\ ~loading
    /\ InFlight < MaxInFlight
    /\ loading' = TRUE
    /\ exportError' = NoError
    /\ UNCHANGED chatVars
    /\ sent' = ViewExportRequest(resume, Deref(localTailoredData), acceptedChanges)
    /\ UNCHANGED pristine
    /\ exportCalls' = exportCalls + 1
    /\ UNCHANGED <<page, resume, tailoredData, heap, supplied, acceptedChanges,
                   error, tailorCalls>>
    /\ UNCHANGED <<localTailoredData, editMode, editedContent, uploadVars>>

ViewExportResolved ==
    /\ ViewShown
    /\ exportCalls > 0
    /\ exportCalls' = exportCalls - 1
    /\ loading' = FALSE
    /\ UNCHANGED chatVars
    /\ sent' = null
    /\ UNCHANGED pristine
    /\ UNCHANGED <<page, resume, tailoredData, heap, supplied, acceptedChanges,
                   error, tailorCalls>>
    /\ UNCHANGED <<viewVars, uploadVars>>

\* Variant: a failed export puts the accepted flags back to their defaults.
ViewExportRejectedResets ==
    /\ ViewShown
    /\ exportCalls > 0
    /\ exportCalls' = exportCalls - 1
    /\ exportError' = "Failed to export resume. Please try again."
    /\ acceptedChanges' = AllAccepted
    /\ loading' = FALSE
    /\ UNCHANGED chatVars
    /\ sent' = null
    /\ UNCHANGED pristine
    /\ UNCHANGED <<page, resume, tailoredData, heap, supplied, error, tailorCalls>>
    /\ UNCHANGED <<localTailoredData, editMode, editedContent, uploadVars>>

ViewExportRejected ==
    /\ ViewShown
    /\ exportCalls > 0
    /\ exportCalls' = exportCalls - 1
    /\ exportError' = "Failed to export resume. Please try again."
    /\ loading' = FALSE
    /\ UNCHANGED chatVars
    /\ sent' = null
    /\ UNCHANGED pristine
    /\ UNCHANGED <<page, resume, tailoredData, heap, supplied, acceptedChanges,
                   error, tailorCalls>>
    /\ UNCHANGED <<localTailoredData, editMode, editedContent, uploadVars>>

\* The Dismiss button of the export error banner.
dismissExportError ==
    /\ ViewShown
    /\ exportError # NoError
    /\ exportError' = NoError
    /\ UNCHANGED chatVars
    /\ sent' = null
    /\ UNCHANGED pristine
    /\ UNCHANGED <<page, appVars, tailorCalls, exportCalls>>
    /\ UNCHANGED <<localTailoredData, editMode, editedContent, uploadVars>>

\* "Back to Upload": the parent shows a fresh upload page; the result page and
\* its state are gone, and a response still in flight finds no component.
onBack ==
    /\ ViewShown
    /\ page' = "CombinedUpload"
    /\ resume' = null
    /\ tailoredData' = null
    /\ heap' = <<>>
    /\ supplied' = null
    /\ localTailoredData' = null
    /\ acceptedChanges' = AllAccepted
    /\ loading' = FALSE
    /\ error' = NoError
    /\ exportError' = NoError
    /\ editMode' = null
    /\ editedContent' = ""
    /\ exportCalls' = 0
    /\ chatMessages' = <<Greeting>>
    /\ chatInput' = ""
    /\ showChat' = FALSE
    /\ chatTimers' = 0
    /\ chatQueued' = 0
    /\ sent' = null
    /\ pristine' = TRUE
    /\ UNCHANGED <<tailorCalls, uploadVars>>

NextCombined ==
    \/ handleFileChange(SomeFile)
    \/ \E text \in JobTexts : setJobDescription(text)
    \/ handleSubmit
    \/ \E parsedResume \in ParsedResumes : SubmitParseResolved(parsedResume)
    \/ \E detail \in ServerDetails : SubmitRejected(detail)
    \/ SubmitTailorResolved
    \/ \E section \in Tailorable : \E index \in 0 .. MaxBullets : handleEdit(section, index)
    \/ \E text \in EditTexts : setEditedContent(text)
    \/ handleSaveEdit
    \/ handleCancelEdit
    \/ \E sectionKey \in Tailorable : setAcceptedChanges(sectionKey)
    \/ viewHandleExport
    \/ ViewExportResolved
    \/ ViewExportRejected
    \/ dismissExportError
    \/ onBack

Next == NextApp \/ NextCombined

Spec == Init /\ [][Next]_vars

\* The parse and export requests are answered; nothing in the sources bounds
\* the wait for a tailor response (axios.post is called without a timeout), so
\* no fairness is stated for it.
SubmitParseAnswered ==
    \E parsedResume \in ParsedResumes : SubmitParseResolved(parsedResume)

FairSpec ==
    /\ Spec
    /\ WF_vars(SubmitParseAnswered)
    /\ WF_vars(AppExportResolved)
    /\ WF_vars(ViewExportResolved)

\* ------------------------------------------------ the handlers, any argument
\* The types of types/index.ts are gone at run time: the body of a response is
\* what the server sent, and a handler runs with the name it is called with.
\* SpecAnyInput adds those calls to the ones the rendered pages make.
UnknownSections == {"projects"}

\* A response body whose tailored summary is a list and whose tailored
\* experience is one string.
MismatchedResult(r) ==
    [MkResult(r, 0, FALSE) EXCEPT
        !.tailored = [summary |-> <<TailSummary(r)>>,
                      experience |-> "tailored experience " \o ToString(r),
                      skills |-> TailSkills(r)]]

AppTailorResolvedMismatched ==
    \E i \in 1 .. Len(tailorCalls) :
        AppTakesResult(i, MismatchedResult(ResumeOfText(tailorCalls[i].resume_text)),
                       FALSE)

\* handleEdit with a name none of its branches knows: editMode is set,
\* editedContent is left as it is.
handleEditUnknown(section) ==
    /\ ViewShown
    /\ editMode' = [section |-> section, index |-> 0]
    /\ UNCHANGED chatVars
    /\ sent' = null
    /\ UNCHANGED pristine
    /\ UNCHANGED <<page, appVars, tailorCalls, exportCalls>>
    /\ UNCHANGED <<localTailoredData, editedContent, exportError, uploadVars>>

NextAnyInput ==
    \/ Next
    \/ AppTailorResolvedMismatched
    \/ \E section \in UnknownSections : handleToggleChange(section)
    \/ \E section \in UnknownSections : handleEditUnknown(section)

SpecAnyInput == Init /\ [][NextAnyInput]_vars

\* ------------------------------------------------------ export, resolved
\* The backend's choice of a tailorable section's content from an export-docx
\* request: the request carries the original, the tailored content and the
\* accepted flag, and nothing else.
Resolve(req, s) ==
    IF req.accepted_changes[s] THEN req.tailored_sections[s] ELSE req.original_sections[s]

\* The section map the backend hands to the document writer.
FinalSectionMap(req) ==
    [k \in DOMAIN req.original_sections |->
        IF k \in Tailorable THEN Resolve(req, k) ELSE req.original_sections[k]]

\* A tailoring result is on screen.
HasResult ==
    \/ page = "TailoredResumeView"
    \/ page = "App" /\ tailoredData # null

\* The TailoredData the mounted component reads.
CurrentData ==
    IF page = "TailoredResumeView" THEN Deref(localTailoredData) ELSE Deref(tailoredData)

\* The request an export started in this state sends.
ExportRequestNow ==
    IF page = "TailoredResumeView"
    THEN ViewExportRequest(resume, CurrentData, acceptedChanges)
    ELSE AppExportRequest(resume, CurrentData, acceptedChanges)

\* The effective content of section s: what an export started now puts in
\* the document.
Effective(s) == Resolve(ExportRequestNow, s)

\* Section s holds a saved manual edit that changed it.
Edited(s) == CurrentData.tailored[s] # supplied.tailored[s]

AnyToggle(a) == handleToggleChange(a) \/ setAcceptedChanges(a)

\* ---------------------------------------------------------- the chat panel
\* The chat panel of a result page on which nothing else happens.
nonChatVars == <<page, resume, tailoredData, heap, supplied, pristine, acceptedChanges,
                 loading, error, tailorCalls, exportCalls, sent, localTailoredData,
                 editMode, editedContent, exportError, file, jobDescription, submitPc,
                 resumeResult>>

UserCount(msgs) == Cardinality({j \in 1 .. Len(msgs) : msgs[j].role = "user"})
ReplyCount(msgs) == Cardinality({j \in 2 .. Len(msgs) : msgs[j].role = "agent"})

\* The result page as onTailoringComplete leaves it.
ChatInit ==
    \E res \in ParsedResumes : \E jd \in {t \in JobTexts : Trim(t) # ""} :
        LET call == [resume_text |-> res["raw_text"], job_description |-> jd] IN
        \E result \in AnswersTo[call] :
            /\ page = "TailoredResumeView"
            /\ resume = res
            /\ tailoredData = RefTo(result)
            /\ heap = HeapOf(result)
            /\ supplied = Received(result, call, TRUE)
            /\ localTailoredData = RefTo(result)
            /\ acceptedChanges = AllAccepted
            /\ pristine = TRUE
            /\ loading = FALSE
            /\ error = NoError
            /\ exportError = NoError
            /\ editMode = null
            /\ editedContent = ""
            /\ tailorCalls = <<>>
            /\ exportCalls = 0
            /\ sent = null
            /\ file = NoFile
            /\ jobDescription = ""
            /\ submitPc = "idle"
            /\ resumeResult = null
            /\ chatMessages = <<Greeting>>
            /\ chatInput = ""
            /\ showChat = FALSE
            /\ chatTimers = 0
            /\ chatQueued = 0

\* The round chat button: setShowChat(!showChat).
setShowChat ==
    /\ ViewShown
    /\ showChat' = ~showChat
    /\ UNCHANGED <<chatMessages, chatInput, chatTimers, chatQueued>>
    /\ UNCHANGED nonChatVars

\* The input of the chat panel, rendered while showChat.
setChatInput(text) ==
    /\ ViewShown
    /\ showChat
    /\ chatInput' = text
    /\ UNCHANGED <<chatMessages, showChat, chatTimers, chatQueued>>
    /\ UNCHANGED nonChatVars

\* handleChatSubmit, early return: if (!chatInput.trim()) return.
handleChatSubmitBlank ==
    /\ ViewShown
    /\ showChat
    /\ Trim(chatInput) = ""
    /\ UNCHANGED chatVars
    /\ UNCHANGED nonChatVars

\* handleChatSubmit: setChatMessages([...chatMessages, message]) sets a value
\* computed from the chatMessages of the last render.  The updates queued
\* before it (the replies of timers that have fired since that render) are
\* applied first and their result is then replaced by this value.
handleChatSubmit ==
    /\ ViewShown
    /\ showChat
    /\ Trim(chatInput) # ""
    /\ UserCount(chatMessages) < MaxChat
    /\ chatMessages' = Append(chatMessages, UserMessage(chatInput))
    /\ chatQueued' = 0
    /\ chatTimers' = chatTimers + 1
    /\ chatInput' = ""
    /\ UNCHANGED showChat
    /\ UNCHANGED nonChatVars

\* A setTimeout callback runs: setChatMessages(prev => [...prev, reply]) is
\* queued; React 18 renders an update made outside an event handler in a
\* later task.
ReplyTimerFires ==
    /\ ViewShown
    /\ chatTimers > 0
    /\ chatTimers' = chatTimers - 1
    /\ chatQueued' = chatQueued + 1
    /\ UNCHANGED <<chatMessages, chatInput, showChat>>
    /\ UNCHANGED nonChatVars

\* The queued replies are rendered: each updater appends its reply.
RenderReplies ==
    /\ ViewShown
    /\ chatQueued > 0
    /\ chatMessages' = chatMessages \o [j \in 1 .. chatQueued |-> AgentReply]
    /\ chatQueued' = 0
    /\ UNCHANGED <<chatInput, showChat, chatTimers>>
    /\ UNCHANGED nonChatVars

ChatNext ==
    \/ setShowChat
    \/ \E text \in ChatTexts : setChatInput(text)
    \/ handleChatSubmitBlank
    \/ handleChatSubmit
    \/ ReplyTimerFires
    \/ RenderReplies

ChatSpec == ChatInit /\ [][ChatNext]_vars

\* ------------------------------------------------------------------ claims

\* C1: the export request is built from the current original content, tailored
\* content and accepted flags, and for a section without a manual edit the
\* content selected from it is the tailored content when the section is
\* accepted and the original content when it is not.
C1_ExportSelectsByAcceptedFlag ==
    sent # null =>
        /\ sent.accepted_changes = acceptedChanges
        /\ \A s \in Tailorable :
            /\ sent.original_sections[s] = CurrentData.original[s]
            /\ sent.tailored_sections[s] = CurrentData.tailored[s]
            /\ ~Edited(s) =>
                  Resolve(sent, s) = IF acceptedChanges[s] THEN supplied.tailored[s]
                                     ELSE supplied.original[s]

\* An export sent from the result page after rejecting summary and keeping
\* skills, for a result that differs from the original.
C1_Witness ==
    /\ sent # null
    /\ page = "TailoredResumeView"
    /\ ~acceptedChanges.summary
    /\ acceptedChanges.skills
    /\ ~Edited("summary")
    /\ supplied.tailored.summary # supplied.original.summary
    /\ Resolve(sent, "summary") = supplied.original.summary
    /\ Resolve(sent, "skills") = supplied.tailored.skills

\* C2: once a manual edit of a section has been saved, the content exported
\* for that section is the edited content, whether the section is accepted or
\* not.
C2_OverrideSupersedes ==
    (sent # null /\ page = "TailoredResumeView") =>
        \A s \in Tailorable : Edited(s) => Resolve(sent, s) = CurrentData.tailored[s]

\* C3: toggling section a changes neither the accepted flag nor the effective
\* content of any other section b, and a rejected section resolves to its
\* original content.
C3_ToggleIndependence ==
    [][\A a \in Tailorable :
          AnyToggle(a) =>
            /\ \A b \in Tailorable \ {a} :
                  /\ acceptedChanges'[b] = acceptedChanges[b]
                  /\ Effective(b)' = Effective(b)
            /\ ~acceptedChanges'[a] => Effective(a)' = CurrentData.original[a]]_vars

\* Summary rejected while experience stays accepted and resolves to the
\* tailored bullets.
C3_Witness ==
    /\ page = "App"
    /\ tailoredData # null
    /\ ~acceptedChanges.summary
    /\ acceptedChanges.experience
    /\ Effective("summary") = CurrentData.original.summary
    /\ Effective("experience") = CurrentData.tailored.experience
    /\ CurrentData.tailored.experience # CurrentData.original.experience

\* C4: while no toggle and no edit has been made since the edit state was
\* created, every section is accepted, holds no manual edit, and resolves to
\* its tailored content.
C4_DefaultsAccepted ==
    (HasResult /\ pristine) =>
        /\ acceptedChanges = AllAccepted
        /\ \A s \in Tailorable :
            /\ ~Edited(s)
            /\ Effective(s) = supplied.tailored[s]

\* A result that differs from the original is on screen, untouched.
C4_Witness ==
    /\ HasResult
    /\ pristine
    /\ ~IsStub(supplied)
    /\ Effective("summary") = supplied.tailored.summary
    /\ Effective("summary") # supplied.original.summary

\* A tailoring result arrives at the mounted component.
ResultArrives == AppTailorResolved \/ SubmitTailorResolved

\* C5: when a new tailoring result arrives the earlier edit state is replaced:
\* every accepted flag is true again and no earlier toggle or edit survives.
C5_NewResultResetsEditState ==
    [][ResultArrives =>
          /\ acceptedChanges' = AllAccepted
          /\ \A s \in Tailorable : ~Edited(s)']_vars

\* C6: saving an edit changes no accepted flag, and a toggle changes no
\* original, tailored or edited content.
C6_EditIndependentOfAcceptance ==
    [][/\ handleSaveEdit => acceptedChanges' = acceptedChanges
       /\ \A a \in Tailorable :
             AnyToggle(a) =>
                /\ CurrentData' = CurrentData
                /\ heap' = heap
                /\ editedContent' = editedContent
                /\ editMode' = editMode]_vars

\* An edited summary next to a rejected skills section.
C6_Witness ==
    /\ page = "TailoredResumeView"
    /\ Edited("summary")
    /\ ~acceptedChanges.skills
    /\ acceptedChanges.summary

\* C7: saving an edit of one section leaves the original content of every
\* section, the rationales, and the tailored content of every other section
\* unchanged; saving an edit of bullet i changes only bullet i.
C7_EditTouchesOnlyItsTarget ==
    [][handleSaveEdit =>
          /\ CurrentData'.original = CurrentData.original
          /\ CurrentData'.changes = CurrentData.changes
          /\ \A b \in Tailorable \ {editMode.section} :
                CurrentData'.tailored[b] = CurrentData.tailored[b]
          /\ editMode.section = "experience" =>
                /\ Len(CurrentData'.tailored.experience) = Len(CurrentData.tailored.experience)
                /\ \A j \in 1 .. Len(CurrentData.tailored.experience) :
                      j # editMode.index =>
                         CurrentData'.tailored.experience[j] = CurrentData.tailored.experience[j]
          /\ CurrentData'.tailored[editMode.section] =
                SaveInto(CurrentData.tailored, editMode, editedContent)[editMode.section]]_vars

\* The first of two bullets edited, the second as tailored.
C7_Witness ==
    /\ page = "TailoredResumeView"
    /\ Len(CurrentData.tailored.experience) = 2
    /\ CurrentData.tailored.experience[1] \in EditTexts
    /\ CurrentData.tailored.experience[2] = supplied.tailored.experience[2]
    /\ CurrentData.tailored.summary = supplied.tailored.summary

\* C8: the section map handed to the document writer has a key for every
\* section kind.
C8_EverySectionKindPresent ==
    sent # null => \A k \in SectionKinds : k \in DOMAIN FinalSectionMap(sent)

\* C9: each non-tailorable section of the parsed resume reaches the document
\* writer with the value it has in the resume.
C9_NonTailorablePassThrough ==
    sent # null =>
        \A k \in NonTailorable :
            k \in DOMAIN resume =>
                /\ k \in DOMAIN FinalSectionMap(sent)
                /\ FinalSectionMap(sent)[k] = resume[k]

\* A tailoring call fails.
TailorCallFails ==
    \/ AppTailorRejected
    \/ submitPc = "tailoring" /\ \E detail \in ServerDetails : SubmitRejected(detail)

\* C10: when the tailoring call fails the pipeline still ends with a result
\* whose tailored content equals the original and whose rationale lists are
\* empty, and no error is shown.
C10_TailoringNeverHardFails ==
    [][TailorCallFails =>
          /\ HasResult'
          /\ IsStub(CurrentData')
          /\ error' = NoError]_vars

\* The requirements vocabulary of the call the result on screen answers.
SuppliedVocabulary == RequirementTerms(supplied.request.job_description)

\* Bullet i of the result as received has no content word of its own.
BulletSupported(i) ==
    /\ i <= Len(supplied.original.experience)
    /\ ContentWords(supplied.tailored.experience[i]) \subseteq
          ContentWords(supplied.original.experience[i]) \cup SuppliedVocabulary

\* C11: in every tailoring result taken into the edit state, each tailored
\* experience bullet and the tailored skills contain only content words of the
\* original bullet or of the requirements vocabulary, compared in lower case;
\* the result becomes the edit state as received, so a bullet the guard
\* replaced is the original bullet there.
C11_AntiFabricationGuard ==
    HasResult =>
        /\ \A i \in 1 .. Len(supplied.tailored.experience) : BulletSupported(i)
        /\ ContentWords(supplied.tailored.skills) \subseteq
              ContentWords(supplied.original.skills) \cup SuppliedVocabulary
        /\ (page = "App" \/ pristine) => CurrentData.tailored = supplied.tailored

\* A result on screen whose first bullet was replaced by the original bullet
\* while its second bullet is tailored with a term of the job description.
C11_Witness ==
    /\ HasResult
    /\ Len(supplied.tailored.experience) = 2
    /\ supplied.tailored.experience[1] = supplied.original.experience[1]
    /\ supplied.tailored.experience[2] # supplied.original.experience[2]
    /\ "leader" \in ContentWords(supplied.tailored.experience[2])
    /\ CurrentData.tailored.experience[1] = supplied.original.experience[1]

\* C12: a tailoring result whose shape differs from the shape of the original
\* content (a string for summary and skills, a sequence of strings for
\* experience) never becomes the edit state.
C12_ShapeMismatchRejected == HasResult => supplied.declared

ExportStep ==
    \/ handleExport
    \/ AppExportResolved
    \/ \E detail \in ServerDetails : AppExportRejected(detail)
    \/ viewHandleExport
    \/ ViewExportResolved
    \/ ViewExportRejected

\* A step that changes the edit state: a toggle, a saved edit, or another
\* result (or none) in place of the one on screen.
Mutation ==
    \/ \E a \in Tailorable : AnyToggle(a)
    \/ handleSaveEdit
    \/ supplied' # supplied

\* C14: between two resolutions with no toggle, edit or new result in between
\* every section resolves to the same content and the request an export would
\* send is the same; a step of an export attempt, successful or failed,
\* changes no original content, no tailored content and no accepted flag.
C14_ResolutionIdempotentReadOnly ==
    [][/\ (HasResult /\ HasResult' /\ ~Mutation) =>
             /\ \A s \in Tailorable : Effective(s)' = Effective(s)
             /\ ExportRequestNow' = ExportRequestNow
       /\ ExportStep =>
             /\ tailoredData' = tailoredData
             /\ localTailoredData' = localTailoredData
             /\ heap' = heap
             /\ acceptedChanges' = acceptedChanges]_vars

\* A failed export on the result page with summary rejected and skills
\* edited: both are still as they were before the attempt.
C14_Witness ==
    /\ page = "TailoredResumeView"
    /\ exportError # NoError
    /\ ~acceptedChanges.summary
    /\ Edited("skills")
    /\ Effective("summary") = supplied.original.summary
    /\ Effective("skills") \in EditTexts

C16_SingleTailoringInFlight == Len(tailorCalls) <= 1

\* onTailoringComplete is called: the upload page hands over to the result page.
CompletionCallback == page = "CombinedUpload" /\ page' = "TailoredResumeView"

\* C17: in the combined upload flow a tailor request is issued only by the
\* step that receives the parsed resume, and carries that resume's text; a
\* failed request issues nothing and ends the submission; the completion
\* callback fires only when both requests have succeeded, with their two
\* results, and ends the submission, so it cannot fire again for it.
C17_PipelineInSequence ==
    [][page = "CombinedUpload" =>
          /\ Len(tailorCalls') > Len(tailorCalls) =>
                /\ submitPc = "parsing" /\ submitPc' = "tailoring"
                /\ tailorCalls = <<>>
                /\ resumeResult' \in ParsedResumes
                /\ tailorCalls'[1].resume_text = resumeResult'["raw_text"]
                /\ tailorCalls'[1].job_description = jobDescription
          /\ (\E detail \in ServerDetails : SubmitRejected(detail)) =>
                /\ tailorCalls' = <<>>
                /\ submitPc' = "idle"
                /\ page' = "CombinedUpload"
          /\ submitPc \in {"idle", "parsing"} => tailorCalls = <<>>
          /\ CompletionCallback =>
                /\ submitPc = "tailoring" /\ submitPc' = "idle"
                /\ Len(tailorCalls) = 1 /\ tailorCalls' = <<>>
                /\ resume' = resumeResult
                /\ Deref(tailoredData)' \in AnswersTo[tailorCalls[1]]
                /\ ~loading']_vars

\* The result page right after the callback, showing the result of the tailor
\* request that carried the text of the parsed resume.
C17_Witness ==
    /\ page = "TailoredResumeView"
    /\ pristine
    /\ submitPc = "idle"
    /\ tailorCalls = <<>>
    /\ resume \in ParsedResumes
    /\ resume["raw_text"] # ""
    /\ supplied.request.resume_text = resume["raw_text"]
    /\ ~IsStub(supplied)

\* C18: every submitted tailoring request eventually completes and the session
\* leaves its loading state.
C18_PipelineCompletes ==
    (Len(tailorCalls) > 0) ~> (Len(tailorCalls) = 0 /\ ~loading)

\* C19: no tailor request is issued with empty resume text or with a blank job
\* description, and an attempt without resume text shows an error.
C19_EmptyInputsStopped ==
    [][/\ \A i \in 1 .. Len(tailorCalls') :
             /\ tailorCalls'[i].resume_text # ""
             /\ Trim(tailorCalls'[i].job_description) # ""
       /\ \A jd \in JobTexts :
             handleJobDescriptionSubmitNoResume(jd) => error' # NoError]_vars

\* C20: a toggle of section a makes its accepted flag the negation of what it
\* was and leaves the other two flags alone, the same toggle is offered again right after, and doing it again
\* gives back the accepted flags of all three sections.
C20_ToggleFlipsAndUndoes ==
    [][\A a \in Tailorable :
          /\ handleToggleChange(a) =>
                /\ acceptedChanges'[a] = ~acceptedChanges[a]
                /\ \A b \in Tailorable \ {a} : acceptedChanges'[b] = acceptedChanges[b]
                /\ DiffViewerShown'
                /\ ToggleChange(acceptedChanges', a) = acceptedChanges
          /\ setAcceptedChanges(a) =>
                /\ acceptedChanges'[a] = ~acceptedChanges[a]
                /\ \A b \in Tailorable \ {a} : acceptedChanges'[b] = acceptedChanges[b]
                /\ ViewShown'
                /\ ToggleAccepted(acceptedChanges', a) = acceptedChanges]_vars

\* App after toggles that brought every flag back to accepted.
C20_Witness ==
    /\ page = "App"
    /\ tailoredData # null
    /\ ~pristine
    /\ acceptedChanges = AllAccepted

\* A tailor response is taken by App at this step.
AppResultArrives == page = "App" /\ supplied' # null /\ supplied' # supplied

\* C21: in App a response becomes the displayed result only when it answers
\* the most recently issued tailoring request (no request issued after it is
\* still in flight) and that request carried the text of the resume loaded now.
C21_DisplayedResultIsLatest ==
    [][AppResultArrives =>
          /\ supplied'.request = tailorCalls[Len(tailorCalls)]
          /\ tailorCalls' = SubSeq(tailorCalls, 1, Len(tailorCalls) - 1)
          /\ supplied'.request.resume_text = resume["raw_text"]]_vars

\* C22: in App, loading is true in every state in which a tailoring or export
\* request is in flight.
C22_LoadingWhileInFlight == (page = "App" /\ InFlight > 0) => loading

\* C23: at most one export request is in flight at any time.
C23_SingleExportInFlight == exportCalls <= 1

\* C25: on the result page the tailoredData value the parent passed in, with
\* its nested tailored summary, experience bullets and skills, equals what
\* the parent supplied, whatever edits have been saved.
C25_ParentValueUnchanged ==
    ViewShown =>
        /\ Deref(tailoredData).original = supplied.original
        /\ Deref(tailoredData).tailored = supplied.tailored
        /\ Deref(tailoredData).changes = supplied.changes

\* The messages a failed request leaves in `error` or `exportError`.
FailureTexts ==
    {ErrorText(detail, fallback) :
        detail \in ServerDetails,
        fallback \in {"Failed to tailor resume", "Failed to export resume",
                      "Failed to process resume. Please try again."}}
    \cup {"Failed to export resume. Please try again."}

\* Steps in which a request fails, and steps in which one succeeds.
RequestFails ==
    \/ \E i \in 1 .. Len(tailorCalls) : \E detail \in ServerDetails :
           AppTailorRejectedWith(i, detail)
    \/ \E detail \in ServerDetails : AppExportRejected(detail)
    \/ \E detail \in ServerDetails : SubmitRejected(detail)
    \/ ViewExportRejected

RequestSucceeds ==
    \/ AppResultArrives
    \/ AppExportResolved
    \/ CompletionCallback
    \/ ViewExportResolved

\* The error message of the component that issued the request.
ShownError == IF page = "TailoredResumeView" THEN exportError ELSE error

\* C24: a failing request sets an error message, ends loading, and leaves the
\* resume, the tailoring result and the accepted flags as they were; after a
\* request succeeds the error is null, unless it is the message of another
\* request that failed.
C24_RequestOutcome ==
    [][/\ RequestFails =>
             /\ ShownError' \in FailureTexts
             /\ ~loading'
             /\ resume' = resume
             /\ tailoredData' = tailoredData
             /\ localTailoredData' = localTailoredData
             /\ heap' = heap
             /\ acceptedChanges' = acceptedChanges
       /\ RequestSucceeds =>
             IF page = "CombinedUpload" THEN error' = NoError
             ELSE ShownError' \in FailureTexts \cup {NoError}]_vars

IsPrefix(a, b) == Len(a) <= Len(b) /\ SubSeq(b, 1, Len(a)) = a

\* C26: in the chat panel the messages shown stay in the list in their order,
\* a non-blank submission appends exactly one user message, a blank one
\* changes nothing, and every user message has exactly one reply, shown
\* already or still to come.
C26_ChatKeepsMessages ==
    [][/\ IsPrefix(chatMessages, chatMessages')
       /\ handleChatSubmit =>
             chatMessages' = Append(chatMessages, UserMessage(chatInput))
       /\ handleChatSubmitBlank => chatMessages' = chatMessages
       /\ UserCount(chatMessages') =
             ReplyCount(chatMessages') + chatQueued' + chatTimers']_vars

====
